---- MODULE Spec2Model ----
(***************************************************************************)
(* Model of the Asgard local MCP server (pkg/mcp): the manifest fetch and  *)
(* handler registration done by NewServer, and the per-call path           *)
(* handler -> APIClient.ExecuteToolRequest -> remote endpoint -> result.   *)
(*                                                                         *)
(* api_client.go holds two generations of the client.  The older one       *)
(* (single invoke_endpoint, JSON body only) behaves as the newer one does  *)
(* for a tool with AllowUploadFiles = FALSE whose Json endpoint is the     *)
(* invoke_endpoint; its response handling is textually the same.           *)
(***************************************************************************)
EXTENDS Integers, Sequences, FiniteSets, TLC

VARIABLES phase, manifestResp, startErr, tools, registered, calls

vars == <<phase, manifestResp, startErr, tools, registered, calls>>

(***************************************************************************)
(* Bounds of the model.                                                    *)
(***************************************************************************)
MaxFiles == 2      \* longest _uploaded_file_paths list tried
MaxTools == 2      \* longest manifest tried

(***************************************************************************)
(* Program constants.                                                      *)
(***************************************************************************)
StatusOK == 200
SniffLen == 512
UploadedFilePathsFieldName == "_uploaded_file_paths"
FormDataKeyJson == "json"
FormDataKeyFile == "file"

(***************************************************************************)
(* JSON documents.  A document stands for the bytes of one JSON text (or   *)
(* of a text that is not JSON).  Only what the decoders of this program    *)
(* look at is kept: the kind of the top-level value and, for an object,    *)
(* the three keys of the remote envelope.                                  *)
(*   kind      "text" (not JSON), "string", "array", "null", "object",     *)
(*             "nil" (no bytes at all: a nil json.RawMessage)              *)
(*   isSuccess "absent", "null", "true", "false", "string" (wrong type)    *)
(*   data      "absent", "null", "object"                                  *)
(*   error     "absent", "null", "msg" (a JSON string), "number"           *)
(***************************************************************************)
Doc(k, s, d, e) == [kind |-> k, isSuccess |-> s, data |-> d, error |-> e]

PlainDoc(k) == Doc(k, "absent", "absent", "absent")

NilBytes == PlainDoc("nil")

ObjectDocs ==
    { Doc("object", s, d, e) :
        s \in {"absent", "null", "true", "false", "string"},
        d \in {"absent", "null", "object"},
        e \in {"absent", "null", "msg", "number"} }

Bodies == { PlainDoc(k) : k \in {"text", "string", "array", "null"} } \cup ObjectDocs

\* The message carried by the envelope's error key when it is a string.
RemoteMsg == "bad input"

\* The bytes of the value under the data key, as json.RawMessage keeps them.
RawValue(d) == PlainDoc(d)

(***************************************************************************)
(* json.Unmarshal of a response body into the envelope struct              *)
(*   { IsSuccess bool; Data json.RawMessage; Error *string; ErrorCode }.   *)
(* It fails on a text that is not JSON, on a top-level value that is       *)
(* neither an object nor null, and on a key whose value has the wrong      *)
(* type.  The literal null, a missing key and a null under isSuccess or    *)
(* error leave the zero value.  json.RawMessage is an Unmarshaler and      *)
(* gets the bytes of its value whatever it is, the four bytes of null      *)
(* included, so Data is nil only when the key is missing.                  *)
(***************************************************************************)
\* UnmarshalEnvelope with the error key never read.
UnmarshalEnvelopeDropsError(b) ==
    IF b.kind \in {"text", "string", "array"} \/ b.isSuccess = "string" \/ b.error = "number"
    THEN [ok |-> FALSE, IsSuccess |-> FALSE, Data |-> NilBytes, Error |-> "nil"]
    ELSE [ok        |-> TRUE,
          IsSuccess |-> (b.isSuccess = "true"),
          Data      |-> IF b.data = "absent" THEN NilBytes ELSE RawValue(b.data),
          Error     |-> "nil"]

UnmarshalEnvelope(b) ==
    IF b.kind \in {"text", "string", "array"} \/ b.isSuccess = "string" \/ b.error = "number"
    THEN [ok |-> FALSE, IsSuccess |-> FALSE, Data |-> NilBytes, Error |-> "nil"]
    ELSE [ok        |-> TRUE,
          IsSuccess |-> (b.isSuccess = "true"),
          Data      |-> IF b.data = "absent" THEN NilBytes ELSE RawValue(b.data),
          Error     |-> IF b.error = "msg" THEN RemoteMsg ELSE "nil"]

(***************************************************************************)
(* Errors, one record shape per fmt.Errorf format of the client.           *)
(***************************************************************************)
NoErr == [fmt |-> "nil"]

ErrNoEndpoint(name) == [fmt |-> "tool %s has no invoke endpoint", tool |-> name]

ErrParseArgs == [fmt |-> "failed to parse uploaded_file_paths: %w"]

ErrOpen(fp) == [fmt |-> "failed to open file %s: %w", path |-> fp]

ErrMime(fp) == [fmt |-> "failed to detect MIME type for file %s: %w", path |-> fp]

ErrNewRequest == [fmt |-> "failed to create request: %w"]

ErrDo == [fmt |-> "failed to execute request: %w"]

ErrReadBody == [fmt |-> "failed to read response body: %w"]

ErrStatus(code, b) == [fmt |-> "unexpected status code: %d, body: %s", status |-> code, body |-> b]

ErrAPI(m) == [fmt |-> "API error: %s", msg |-> m]

\* What ExecuteToolRequest returns: (json.RawMessage, error).
Ret(b, e) == [bytes |-> b, err |-> e]

Fail(e) == Ret(NilBytes, e)

(***************************************************************************)
(* What the HTTP round trip of one call can produce: client.Do fails, the  *)
(* body cannot be read, or a status and a body arrive.                     *)
(***************************************************************************)
Statuses == {StatusOK, 500}

Responses ==
    { [io |-> k, status |-> 0, body |-> NilBytes] : k \in {"doErr", "readErr"} }
    \cup { [io |-> "ok", status |-> s, body |-> b] : s \in Statuses, b \in Bodies }

(***************************************************************************)
(* ExecuteToolRequest from client.Do on: the status check, the envelope    *)
(* decode with its raw fallback, the success flag, the data portion.       *)
(***************************************************************************)
\* HandleResponse with the envelope looked at before the status: a successful
\* envelope wins over a failing status.
HandleResponseEnvelopeFirst(r) ==
    IF r.io = "doErr" THEN Fail(ErrDo)
    ELSE IF r.io = "readErr" THEN Fail(ErrReadBody)
    ELSE LET asgardResponse == UnmarshalEnvelope(r.body)
         IN  IF asgardResponse.ok /\ asgardResponse.IsSuccess
             THEN IF asgardResponse.Data # NilBytes THEN Ret(asgardResponse.Data, NoErr)
                  ELSE Ret(r.body, NoErr)
             ELSE IF r.status # StatusOK THEN Fail(ErrStatus(r.status, r.body))
             ELSE IF ~asgardResponse.ok THEN Ret(r.body, NoErr)
             ELSE Fail(ErrAPI(IF asgardResponse.Error # "nil"
                              THEN asgardResponse.Error ELSE "unknown error"))

\* HandleResponse with a decode failure reported, as FetchToolsetManifest does.
HandleResponseStrictDecode(r) ==
    IF r.io = "doErr" THEN Fail(ErrDo)
    ELSE IF r.io = "readErr" THEN Fail(ErrReadBody)
    ELSE IF r.status # StatusOK THEN Fail(ErrStatus(r.status, r.body))
    ELSE LET asgardResponse == UnmarshalEnvelope(r.body)
         IN  IF ~asgardResponse.ok THEN Fail([fmt |-> "failed to unmarshal response: %w"])
             ELSE IF ~asgardResponse.IsSuccess
                  THEN Fail(ErrAPI(IF asgardResponse.Error # "nil"
                                   THEN asgardResponse.Error ELSE "unknown error"))
             ELSE IF asgardResponse.Data # NilBytes THEN Ret(asgardResponse.Data, NoErr)
             ELSE Ret(r.body, NoErr)

HandleResponse(r) ==
    IF r.io = "doErr" THEN Fail(ErrDo)
    ELSE IF r.io = "readErr" THEN Fail(ErrReadBody)
    ELSE IF r.status # StatusOK THEN Fail(ErrStatus(r.status, r.body))
    ELSE LET asgardResponse == UnmarshalEnvelope(r.body)
         IN  IF ~asgardResponse.ok THEN Ret(r.body, NoErr)
             ELSE IF ~asgardResponse.IsSuccess
                  THEN Fail(ErrAPI(IF asgardResponse.Error # "nil"
                                   THEN asgardResponse.Error ELSE "unknown error"))
             ELSE IF asgardResponse.Data # NilBytes THEN Ret(asgardResponse.Data, NoErr)
             ELSE Ret(r.body, NoErr)

(***************************************************************************)
(* The local file system the calls read.  A path is a sequence of          *)
(* characters; a file is its bytes.                                        *)
(***************************************************************************)
PathGood    == <<"d", "/", "a">>     \* a two-byte text file in directory d
PathQuote   == <<"q", "\"">>         \* a file whose name holds a double quote
PathEmpty   == <<"e">>               \* a file of zero bytes
PathMissing == <<"m">>               \* nothing there

Paths == {PathGood, PathQuote, PathEmpty, PathMissing}

FileSystem(fp) ==
    CASE fp = PathGood  -> [kind |-> "file", bytes |-> <<104, 105>>]
      [] fp = PathQuote -> [kind |-> "file", bytes |-> <<37, 80, 68, 70, 45>>]
      [] fp = PathEmpty -> [kind |-> "file", bytes |-> <<>>]
      [] OTHER          -> [kind |-> "none", bytes |-> <<>>]

\* os.Open succeeds on anything that exists.
CanOpen(fp) == FileSystem(fp).kind # "none"

(***************************************************************************)
(* filepath.Base: "." for the empty path, trailing separators dropped,     *)
(* then what follows the last separator, "/" when nothing is left.         *)
(***************************************************************************)
RECURSIVE StripTrailingSlashes(_)
StripTrailingSlashes(p) ==
    IF Len(p) > 0 /\ p[Len(p)] = "/" THEN StripTrailingSlashes(SubSeq(p, 1, Len(p) - 1)) ELSE p

RECURSIVE LastElement(_)
LastElement(p) ==
    IF p = <<>> THEN <<>>
    ELSE IF p[Len(p)] = "/" THEN <<>>
    ELSE Append(LastElement(SubSeq(p, 1, Len(p) - 1)), p[Len(p)])

Base(p) ==
    IF p = <<>> THEN <<".">>
    ELSE LET q == StripTrailingSlashes(p)
         IN  IF q = <<>> THEN <<"/">> ELSE LastElement(q)

\* strings.NewReplacer("\\", "\\\\", `"`, "\\\""): a backslash before every
\* backslash and double quote.
RECURSIVE QuoteEscape(_)
QuoteEscape(p) ==
    IF p = <<>> THEN <<>>
    ELSE (IF Head(p) \in {"\\", "\""} THEN <<"\\", Head(p)>> ELSE <<Head(p)>>)
         \o QuoteEscape(Tail(p))

(***************************************************************************)
(* DetectMime: one file.Read into a buffer of SniffLen zero bytes, then    *)
(* http.DetectContentType over the whole buffer.  Read reports io.EOF for  *)
(* a file of zero bytes, and DetectMime returns it as an error.            *)
(***************************************************************************)
ReadBuffer(bytes) == [i \in 1..SniffLen |-> IF i <= Len(bytes) THEN bytes[i] ELSE 0]

\* The sniffing rules the files of this model meet: the %PDF- signature,
\* then binary data (a zero byte among them) against text.
DetectContentType(buffer) ==
    IF SubSeq(buffer, 1, 5) = <<37, 80, 68, 70, 45>> THEN "application/pdf"
    ELSE IF \E i \in 1..Len(buffer) : buffer[i] = 0 THEN "application/octet-stream"
    ELSE "text/plain; charset=utf-8"

DetectMime(fp) ==
    LET f == FileSystem(fp)
    IN  IF f.kind = "none" THEN [ok |-> FALSE, mimeType |-> ""]
        ELSE IF Len(f.bytes) = 0 THEN [ok |-> FALSE, mimeType |-> ""]
        ELSE [ok |-> TRUE, mimeType |-> DetectContentType(ReadBuffer(f.bytes))]

(***************************************************************************)
(* The arguments of a call, as the JSON text the handler marshals.  kind   *)
(* is the kind of the top-level value; for an object, field says what sits *)
(* under _uploaded_file_paths ("absent", a "string", "null", or a "list")  *)
(* and paths is that list.                                                 *)
(***************************************************************************)
ArgsDoc(k, f, ps) == [kind |-> k, field |-> f, paths |-> ps]

NoArgs == ArgsDoc("none", "absent", <<>>)

RECURSIVE SeqsUpTo(_, _)
SeqsUpTo(S, n) ==
    IF n = 0 THEN {<<>>}
    ELSE LET shorter == SeqsUpTo(S, n - 1)
         IN  shorter \cup { Append(q, x) : q \in shorter, x \in S }

Arguments ==
    { ArgsDoc(k, "absent", <<>>) : k \in {"object", "null", "array", "string"} }
    \cup { ArgsDoc("object", f, <<>>) : f \in {"string", "null"} }
    \cup { ArgsDoc("object", "list", ps) : ps \in SeqsUpTo(Paths, MaxFiles) }

\* json.Unmarshal(input, &map[string]interface{}): an object or null decodes.
UnmarshalMap(input) == input.kind \in {"object", "null"}

(***************************************************************************)
(* Endpoints.  http.NewRequest rejects a URL that does not parse.          *)
(***************************************************************************)
UrlJson == "https://remote/invoke/json"
UrlForm == "https://remote/invoke/form"
UrlBad  == "://remote"

NewRequestFails(endpoint) == endpoint = UrlBad

\* SelectEndpoint falling back on the other endpoint when the one of the
\* tool's mode is empty.
SelectEndpointFallback(tool) ==
    LET own   == IF tool.AllowUploadFiles THEN tool.InvokeEndpoints.Form
                 ELSE tool.InvokeEndpoints.Json
        other == IF tool.AllowUploadFiles THEN tool.InvokeEndpoints.Json
                 ELSE tool.InvokeEndpoints.Form
    IN  IF own # "" THEN own ELSE other

\* The endpoint ExecuteToolRequest picks from the descriptor.
SelectEndpoint(tool) ==
    IF tool.AllowUploadFiles THEN tool.InvokeEndpoints.Form ELSE tool.InvokeEndpoints.Json

(***************************************************************************)
(* The loop over _uploaded_file_paths: open, sniff, write one part; the    *)
(* first failure ends the call.                                            *)
(***************************************************************************)
FilePart(fp, mimeType) ==
    [name        |-> FormDataKeyFile,
     filename    |-> QuoteEscape(Base(fp)),
     contentType |-> mimeType,
     content     |-> FileSystem(fp).bytes]

RECURSIVE AttachFiles(_, _)
AttachFiles(filePaths, written) ==
    IF filePaths = <<>> THEN [err |-> NoErr, files |-> written]
    ELSE LET fp == Head(filePaths)
         IN  IF ~CanOpen(fp) THEN [err |-> ErrOpen(fp), files |-> written]
             ELSE IF ~DetectMime(fp).ok THEN [err |-> ErrMime(fp), files |-> written]
             ELSE AttachFiles(Tail(filePaths),
                              Append(written, FilePart(fp, DetectMime(fp).mimeType)))

\* An HTTP request: a raw JSON body, or a multipart body of fields and files.
Request(u, ct, r, fs, ps) ==
    [method |-> "POST", url |-> u, contentType |-> ct, raw |-> r, fields |-> fs, files |-> ps]

(***************************************************************************)
(* The multipart branch of ExecuteToolRequest: the json field, then the    *)
(* files listed under _uploaded_file_paths when that key holds a list.     *)
(***************************************************************************)
\* MultipartBody refusing arguments whose _uploaded_file_paths is missing or
\* is not a list.
MultipartBodyListRequired(input) ==
    LET fields == <<[name |-> FormDataKeyJson, value |-> input]>>
    IN  IF ~UnmarshalMap(input) \/ input.field # "list"
        THEN [err |-> ErrParseArgs, fields |-> fields, files |-> <<>>]
        ELSE LET attached == AttachFiles(input.paths, <<>>)
             IN  [err |-> attached.err, fields |-> fields, files |-> attached.files]

MultipartBody(input) ==
    LET fields == <<[name |-> FormDataKeyJson, value |-> input]>>
    IN  IF ~UnmarshalMap(input) THEN [err |-> ErrParseArgs, fields |-> fields, files |-> <<>>]
        ELSE LET filePaths == IF input.field = "list" THEN input.paths ELSE <<>>
                 attached  == AttachFiles(filePaths, <<>>)
             IN  [err |-> attached.err, fields |-> fields, files |-> attached.files]

(***************************************************************************)
(* ExecuteToolRequest up to client.Do: the endpoint, the body, the request.*)
(* The result is the error that ended the call early, or the request that  *)
(* goes out.                                                               *)
(***************************************************************************)
BuildRequest(tool, input) ==
    LET endpoint == SelectEndpoint(tool)
        stop(e)  == [err |-> e, req |-> <<>>]
        mp       == MultipartBody(input)
    IN  IF endpoint = "" THEN stop(ErrNoEndpoint(tool.Name))
        ELSE IF tool.AllowUploadFiles /\ mp.err.fmt # "nil" THEN stop(mp.err)
        ELSE IF NewRequestFails(endpoint) THEN stop(ErrNewRequest)
        ELSE IF tool.AllowUploadFiles
        THEN [err |-> NoErr,
              req |-> <<Request(endpoint, "multipart/form-data", NoArgs, mp.fields, mp.files)>>]
        ELSE [err |-> NoErr,
              req |-> <<Request(endpoint, "application/json", input, <<>>, <<>>)>>]

(***************************************************************************)
(* Tool descriptors (type Tool).  InputSchema is the raw input_schema:     *)
(*   kind       "absent" (no bytes), "null", "object", "array"             *)
(*   type       the top-level "type" key: "absent", "object", "string"     *)
(*   properties "absent", "object", "string" (not an object)               *)
(*   uploadField what properties holds under _uploaded_file_paths          *)
(***************************************************************************)
Schema(k, t, p, u) == [kind |-> k, type |-> t, properties |-> p, uploadField |-> u]

\* Values of the _uploaded_file_paths entry of a schema: none, one the tool
\* declares itself, and the fixed one the server injects.
NoField == [type |-> "absent", items |-> "absent"]

OwnField == [type |-> "string", items |-> "absent"]

UploadedFilePathsSchema == [type |-> "array", items |-> "string"]

Tool(n, up, j, f, sch) ==
    [Name |-> n, AllowUploadFiles |-> up,
     InvokeEndpoints |-> [Json |-> j, Form |-> f], InputSchema |-> sch]

NoTool == Tool("", FALSE, "", "", Schema("absent", "absent", "absent", NoField))

\* The descriptors tried, in the order a manifest lists them.
PoolOrder ==
    << Tool("echo",   TRUE,  UrlJson, UrlForm, Schema("object", "absent", "object", OwnField)),
       Tool("echo",   FALSE, UrlJson, "",      Schema("object", "absent", "absent", NoField)),
       Tool("upload", TRUE,  UrlJson, UrlForm, Schema("object", "object", "absent", NoField)),
       Tool("scan",   TRUE,  UrlJson, "",      Schema("object", "string", "object", NoField)),
       Tool("draft",  FALSE, UrlJson, "",      Schema("absent", "absent", "absent", NoField)),
       Tool("stat",   FALSE, "",      UrlForm, Schema("null",   "absent", "absent", NoField)),
       Tool("ocr",    TRUE,  "",      UrlBad,  Schema("object", "absent", "string", NoField)),
       Tool("",       FALSE, UrlJson, UrlForm, Schema("object", "string", "object", OwnField)) >>

ToolPool == { PoolOrder[i] : i \in 1..Len(PoolOrder) }

\* The manifests tried: every run of at most MaxTools neighbours of PoolOrder.
Manifests ==
    UNION { { SubSeq(PoolOrder, i, i + n - 1) : i \in 1..(Len(PoolOrder) - n + 1) } :
              n \in 0..MaxTools }

(***************************************************************************)
(* The manifest endpoint's answer and FetchToolsetManifest.                *)
(***************************************************************************)
ManifestBody(dec, s, e, ts) == [decodes |-> dec, isSuccess |-> s, error |-> e, tools |-> ts]

FetchResponses ==
    { [io |-> k, status |-> 0, body |-> ManifestBody(FALSE, FALSE, "nil", <<>>)] :
        k \in {"doErr", "readErr"} }
    \cup { [io |-> "ok", status |-> st, body |-> ManifestBody(dec, s, e, ts)] :
             st \in Statuses, dec \in BOOLEAN, s \in BOOLEAN,
             e \in {"nil", RemoteMsg}, ts \in Manifests }

ErrUnmarshal == [fmt |-> "failed to unmarshal response: %w"]

\* FetchToolsetManifest refusing a manifest that holds a tool without a name
\* or without an endpoint for its mode.
FetchToolsetManifestValidating(r) ==
    LET fail(e) == [err |-> e, Tools |-> <<>>]
    IN  IF r.io = "doErr" THEN fail(ErrDo)
        ELSE IF r.io = "readErr" THEN fail(ErrReadBody)
        ELSE IF r.status # StatusOK THEN fail(ErrStatus(r.status, r.body))
        ELSE IF ~r.body.decodes THEN fail(ErrUnmarshal)
        ELSE IF ~r.body.isSuccess
             THEN fail(ErrAPI(IF r.body.error # "nil" THEN r.body.error ELSE "unknown error"))
        ELSE IF \E i \in 1..Len(r.body.tools) :
                    r.body.tools[i].Name = "" \/ SelectEndpoint(r.body.tools[i]) = ""
             THEN fail([fmt |-> "tool has no invocation target"])
        ELSE [err |-> NoErr, Tools |-> r.body.tools]

\* FetchToolsetManifest decoding the body before it looks at the status.
FetchToolsetManifestDecodeFirst(r) ==
    LET fail(e) == [err |-> e, Tools |-> <<>>]
    IN  IF r.io = "doErr" THEN fail(ErrDo)
        ELSE IF r.io = "readErr" THEN fail(ErrReadBody)
        ELSE IF ~r.body.decodes THEN fail(ErrUnmarshal)
        ELSE IF ~r.body.isSuccess
             THEN fail(ErrAPI(IF r.body.error # "nil" THEN r.body.error ELSE "unknown error"))
        ELSE IF r.status # StatusOK THEN fail(ErrStatus(r.status, r.body))
        ELSE [err |-> NoErr, Tools |-> r.body.tools]

FetchToolsetManifest(r) ==
    LET fail(e) == [err |-> e, Tools |-> <<>>]
    IN  IF r.io = "doErr" THEN fail(ErrDo)
        ELSE IF r.io = "readErr" THEN fail(ErrReadBody)
        ELSE IF r.status # StatusOK THEN fail(ErrStatus(r.status, r.body))
        ELSE IF ~r.body.decodes THEN fail(ErrUnmarshal)
        ELSE IF ~r.body.isSuccess
             THEN fail(ErrAPI(IF r.body.error # "nil" THEN r.body.error ELSE "unknown error"))
        ELSE [err |-> NoErr, Tools |-> r.body.tools]

(***************************************************************************)
(* registerToolHandlers: for each tool in order, decode its schema into a  *)
(* map, default "type", add the upload field, and AddTool the result with  *)
(* a handler that holds its own copy of the descriptor.  A schema that     *)
(* does not decode ends the loop with an error; what was added stays.      *)
(***************************************************************************)
\* json.Unmarshal(InputSchema, &map[string]interface{}).
SchemaDecodes(sch) == sch.kind \in {"object", "null"}

\* AugmentSchema adding the upload field to every tool's schema, whatever
\* AllowUploadFiles says.
AugmentSchemaEveryTool(tool) ==
    LET sch == tool.InputSchema
    IN  IF sch.kind = "null" THEN sch
        ELSE LET typed == [sch EXCEPT !.type = IF @ = "absent" THEN "object" ELSE @]
                 props == IF typed.properties = "absent" THEN "object" ELSE typed.properties
             IN  [typed EXCEPT !.properties = props,
                               !.uploadField = IF props = "object"
                                               THEN UploadedFilePathsSchema ELSE @]

\* The schema AddTool gets: nothing is touched when the decoded map is nil
\* (input_schema null); otherwise "type" defaults to "object" and, for an
\* upload-capable tool, "properties" is created when missing and gets the
\* upload field when it is an object.
AugmentSchema(tool) ==
    LET sch == tool.InputSchema
    IN  IF sch.kind = "null" THEN sch
        ELSE LET typed == [sch EXCEPT !.type = IF @ = "absent" THEN "object" ELSE @]
             IN  IF ~tool.AllowUploadFiles THEN typed
                 ELSE LET props == IF typed.properties = "absent" THEN "object"
                                   ELSE typed.properties
                      IN  [typed EXCEPT !.properties = props,
                                        !.uploadField = IF props = "object"
                                                        THEN UploadedFilePathsSchema ELSE @]

Registration(tool) ==
    [name |-> tool.Name, localTool |-> tool, RawInputSchema |-> AugmentSchema(tool)]

RECURSIVE RegisterLoop(_, _)
RegisterLoop(ts, added) ==
    IF ts = <<>> THEN [err |-> NoErr, added |-> added]
    ELSE IF ~SchemaDecodes(Head(ts).InputSchema)
         THEN [err |-> [fmt |-> "failed to parse input schema for tool %s: %w",
                        tool |-> Head(ts).Name],
               added |-> added]
    ELSE RegisterLoop(Tail(ts), Append(added, Registration(Head(ts))))

registerToolHandlers(ts) == RegisterLoop(ts, <<>>)

\* The handler the protocol layer finds under a name: AddTool keeps one
\* entry per name, the one added last.
HasHandler(reg, n) == \E i \in 1..Len(reg) : reg[i].name = n

\* HandlerTool with every closure reading the loop variable, which holds the
\* last tool of the list once the loop is over.
HandlerToolLoopVariable(reg, n) == reg[Len(reg)].localTool

HandlerTool(reg, n) ==
    LET last == CHOOSE i \in 1..Len(reg) :
                    reg[i].name = n /\ \A j \in (i + 1)..Len(reg) : reg[j].name # n
    IN  reg[last].localTool

(***************************************************************************)
(* NewServer: fetch the manifest, store its tools, register the handlers.  *)
(***************************************************************************)
\* NewServer going on to serve whatever was registered when a schema fails.
NewServerServingPartial(r) ==
    LET manifest == FetchToolsetManifest(r)
        reg      == registerToolHandlers(manifest.Tools)
    IN  IF manifest.err.fmt # "nil"
        THEN [err |-> [fmt |-> "failed to fetch toolset manifest: %w", cause |-> manifest.err],
              tools |-> <<>>, registered |-> <<>>]
        ELSE [err |-> NoErr, tools |-> manifest.Tools, registered |-> reg.added]

NewServer(r) ==
    LET manifest == FetchToolsetManifest(r)
        reg      == registerToolHandlers(manifest.Tools)
    IN  IF manifest.err.fmt # "nil"
        THEN [err |-> [fmt |-> "failed to fetch toolset manifest: %w", cause |-> manifest.err],
              tools |-> <<>>, registered |-> <<>>]
        ELSE IF reg.err.fmt # "nil"
        THEN [err |-> [fmt |-> "failed to register tool handlers: %w", cause |-> reg.err],
              tools |-> manifest.Tools, registered |-> reg.added]
        ELSE [err |-> NoErr, tools |-> manifest.Tools, registered |-> reg.added]

(***************************************************************************)
(* What the handler gives back to the protocol layer, always with a nil Go *)
(* error: a tool-error result, or the indented text of the returned JSON.  *)
(***************************************************************************)
\* json.Unmarshal(responseJSON, &interface{}) accepts any JSON text.
ValidJSON(bytes) == bytes.kind \in {"string", "array", "null", "object"}

\* json.Unmarshal of the returned bytes into interface{} and its error.
ErrSyntax == [fmt |-> "invalid character"]

\* json.MarshalIndent(responseObj, "", "  "): the value written again, keys
\* sorted, two spaces a level; not the bytes that came in.
MarshalIndent(v, prefix, indent) == [layout |-> "indented", prefix |-> prefix, indent |-> indent, value |-> v]

NoText == [layout |-> "none", prefix |-> "", indent |-> "", value |-> NilBytes]

NewToolResultError(f, cause) == [IsError |-> TRUE, fmt |-> f, cause |-> cause, text |-> NoText]

NewToolResultText(text) == [IsError |-> FALSE, fmt |-> "%s", cause |-> NoErr, text |-> text]

\* What the handler returns: the result and the Go error beside it.
Returned(res) == [result |-> res, err |-> NoErr]

\* No handler has returned yet.
NoResult == [result |-> [IsError |-> FALSE, fmt |-> "", cause |-> NoErr, text |-> NoText], err |-> [fmt |-> "pending"]]

\* The handler with the returned bytes forwarded as they are.
ToolResultForwarding(ret) ==
    IF ret.err.fmt # "nil"
    THEN Returned(NewToolResultError("Tool execution failed: %v", ret.err))
    ELSE Returned(NewToolResultText([layout |-> "sent", prefix |-> "", indent |-> "", value |-> ret.bytes]))

\* The handler from the return of ExecuteToolRequest on.
ToolResult(ret) ==
    IF ret.err.fmt # "nil"
    THEN Returned(NewToolResultError("Tool execution failed: %v", ret.err))
    ELSE IF ~ValidJSON(ret.bytes)
    THEN Returned(NewToolResultError("Failed to parse tool response: %v", ErrSyntax))
    ELSE Returned(NewToolResultText(MarshalIndent(ret.bytes, "", "  ")))

(***************************************************************************)
(* State.                                                                  *)
(*   phase      "boot" before main has run NewServer, "serving" once       *)
(*              Start serves calls, "exited" after log.Fatalf              *)
(*   manifestResp what the manifest endpoint answered to NewServer         *)
(*   startErr   the error NewServer returned                               *)
(*   tools      Server.tools                                               *)
(*   registered the tools added to the protocol server, in order           *)
(*   calls      per client, the call it has made last: "idle", "inflight"  *)
(*              (request sent, no answer yet) or "done"                    *)
(***************************************************************************)
Clients == {"c1"}

NoResponse == [io |-> "none", status |-> 0, body |-> NilBytes]

NoRet == Ret(NilBytes, [fmt |-> "pending"])

IdleCall ==
    [st |-> "idle", name |-> "", tool |-> NoTool, args |-> NoArgs, req |-> <<>>,
     resp |-> NoResponse, ret |-> NoRet, result |-> NoResult]

Init ==
    /\ phase = "boot"
    /\ manifestResp = [io |-> "none", status |-> 0, body |-> ManifestBody(FALSE, FALSE, "nil", <<>>)]
    /\ startErr = NoErr
    /\ tools = <<>>
    /\ registered = <<>>
    /\ calls = [c \in Clients |-> IdleCall]

\* main: NewServer, then Start, or log.Fatalf.
Main(r) ==
    /\ phase = "boot"
    /\ manifestResp' = r
    /\ LET s == NewServer(r)
       IN  /\ phase' = IF s.err.fmt = "nil" THEN "serving" ELSE "exited"
           /\ startErr' = s.err
           /\ tools' = s.tools
           /\ registered' = s.registered
    /\ UNCHANGED calls

\* HandlerStart with a handler that turns its tool's upload flag off in the
\* registry when the call could not be sent.
HandlerStartDisablingUpload(c, n, a) ==
    /\ phase = "serving"
    /\ calls[c].st = "idle"
    /\ HasHandler(registered, n)
    /\ LET localTool == HandlerTool(registered, n)
           built     == BuildRequest(localTool, a)
           early     == Fail(built.err)
       IN  /\ calls' = [calls EXCEPT ![c] =
                  IF built.err.fmt # "nil"
                  THEN [st |-> "done", name |-> n, tool |-> localTool, args |-> a, req |-> <<>>,
                        resp |-> NoResponse, ret |-> early, result |-> ToolResult(early)]
                  ELSE [st |-> "inflight", name |-> n, tool |-> localTool, args |-> a,
                        req |-> built.req, resp |-> NoResponse, ret |-> NoRet,
                        result |-> NoResult]]
           /\ registered' =
                  IF built.err.fmt = "nil" THEN registered
                  ELSE [i \in DOMAIN registered |->
                           IF registered[i].name = n
                           THEN [registered[i] EXCEPT !.localTool.AllowUploadFiles = FALSE]
                           ELSE registered[i]]
    /\ UNCHANGED <<phase, manifestResp, startErr, tools>>

\* The handler of tool n is called with arguments a and runs up to client.Do.
HandlerStart(c, n, a) ==
    /\ phase = "serving"
    /\ calls[c].st = "idle"
    /\ HasHandler(registered, n)
    /\ LET localTool == HandlerTool(registered, n)
           built     == BuildRequest(localTool, a)
           early     == Fail(built.err)
       IN  calls' = [calls EXCEPT ![c] =
               IF built.err.fmt # "nil"
               THEN [st |-> "done", name |-> n, tool |-> localTool, args |-> a, req |-> <<>>,
                     resp |-> NoResponse, ret |-> early, result |-> ToolResult(early)]
               ELSE [st |-> "inflight", name |-> n, tool |-> localTool, args |-> a,
                     req |-> built.req, resp |-> NoResponse, ret |-> NoRet,
                     result |-> NoResult]]
    /\ UNCHANGED <<phase, manifestResp, startErr, tools, registered>>

\* The round trip of an inflight call ends with r and the handler returns.
HandlerFinish(c, r) ==
    /\ phase = "serving"
    /\ calls[c].st = "inflight"
    /\ LET ret == HandleResponse(r)
       IN  calls' = [calls EXCEPT ![c] =
               [@ EXCEPT !.st = "done", !.resp = r, !.ret = ret, !.result = ToolResult(ret)]]
    /\ UNCHANGED <<phase, manifestResp, startErr, tools, registered>>

\* The protocol layer has written the result to the client; the client may
\* call again.
Deliver(c) ==
    /\ phase = "serving"
    /\ calls[c].st = "done"
    /\ calls' = [calls EXCEPT ![c] = IdleCall]
    /\ UNCHANGED <<phase, manifestResp, startErr, tools, registered>>

ToolNames == { t.Name : t \in ToolPool }

Next ==
    \/ \E r \in FetchResponses : Main(r)
    \/ \E c \in DOMAIN calls, n \in ToolNames, a \in Arguments : HandlerStart(c, n, a)
    \/ \E c \in DOMAIN calls, r \in Responses : HandlerFinish(c, r)
    \/ \E c \in DOMAIN calls : Deliver(c)

Spec == Init /\ [][Next]_vars

(***************************************************************************)
(* Vocabulary of the properties.                                           *)
(***************************************************************************)
\* Client c's call has come back from the remote endpoint with a status.
Answered(c) == calls[c].st = "done" /\ calls[c].resp.io = "ok"

\* Client c's call ended inside ExecuteToolRequest before any request went out.
EndedUnsent(c) == calls[c].st = "done" /\ calls[c].req = <<>> /\ calls[c].resp.io = "none"

FmtStatus == "unexpected status code: %d, body: %s"
FmtAPI == "API error: %s"
FmtNoEndpoint == "tool %s has no invoke endpoint"
FmtOpen == "failed to open file %s: %w"
FmtMime == "failed to detect MIME type for file %s: %w"

(***************************************************************************)
(* C1.  Every answer whose status is not 200 makes the call return an      *)
(* error that carries the status and the raw body, and no result,          *)
(* whatever the body is: the status is checked before the envelope is      *)
(* looked at.                                                              *)
(***************************************************************************)
C1_NonOKStatusIsError ==
    \A c \in DOMAIN calls :
        (Answered(c) /\ calls[c].resp.status # 200) =>
            /\ calls[c].ret.bytes = NilBytes
            /\ calls[c].ret.err.fmt = FmtStatus
            /\ calls[c].ret.err.status = calls[c].resp.status
            /\ calls[c].ret.err.body = calls[c].resp.body

\* A 500 whose body is a well-formed successful envelope with data came back
\* as the status error.
C1_Witness ==
    \E c \in DOMAIN calls :
        /\ Answered(c)
        /\ calls[c].resp.status = 500
        /\ calls[c].resp.body = Doc("object", "true", "object", "absent")
        /\ calls[c].ret.err.fmt = FmtStatus

(***************************************************************************)
(* C2.  After a 200, a body that does not carry the success flag (text     *)
(* that is not JSON, a scalar, an array, null, an object without           *)
(* isSuccess) comes back verbatim and without error; the call returns an   *)
(* error only when the body is an envelope whose flag is explicitly false. *)
(***************************************************************************)
C2_NonEnvelopePassesThrough ==
    \A c \in DOMAIN calls :
        (Answered(c) /\ calls[c].resp.status = 200) =>
            LET body == calls[c].resp.body
            IN  /\ (body.kind # "object" \/ body.isSuccess = "absent") =>
                       (calls[c].ret.err.fmt = "nil" /\ calls[c].ret.bytes = body)
                /\ calls[c].ret.err.fmt # "nil" =>
                       (body.kind = "object" /\ body.isSuccess = "false")

(***************************************************************************)
(* C3.  After a 200 whose body does not decode into the envelope, the call *)
(* returns no error and its result is the body, byte for byte.             *)
(***************************************************************************)
C3_UndecodableBodyVerbatim ==
    \A c \in DOMAIN calls :
        (Answered(c) /\ calls[c].resp.status = 200
                     /\ ~UnmarshalEnvelope(calls[c].resp.body).ok) =>
            /\ calls[c].ret.err.fmt = "nil"
            /\ calls[c].ret.bytes = calls[c].resp.body

\* The JSON string "plain text" came back after a 200 and is the result.
C3_Witness ==
    \E c \in DOMAIN calls :
        /\ Answered(c)
        /\ calls[c].resp.status = 200
        /\ calls[c].resp.body = PlainDoc("string")
        /\ calls[c].ret = Ret(PlainDoc("string"), NoErr)

(***************************************************************************)
(* C4.  After a 200 whose body is an envelope with the success flag false, *)
(* the call returns an error and no result; the message is the envelope's  *)
(* error string when there is one and "unknown error" when the error key   *)
(* is missing or null, with or without a data key.                         *)
(***************************************************************************)
C4_RemoteFailureMessage ==
    \A c \in DOMAIN calls :
        LET body == calls[c].resp.body
        IN  (Answered(c) /\ calls[c].resp.status = 200 /\ body.kind = "object"
                         /\ body.isSuccess = "false" /\ body.error # "number") =>
                /\ calls[c].ret.bytes = NilBytes
                /\ calls[c].ret.err.fmt = FmtAPI
                /\ calls[c].ret.err.msg =
                       (IF body.error = "msg" THEN RemoteMsg ELSE "unknown error")

\* One failed envelope with a message and one without, the second with data.
C4_Witness ==
    \E c \in DOMAIN calls :
        /\ Answered(c)
        /\ calls[c].resp.status = 200
        /\ \/ /\ calls[c].resp.body = Doc("object", "false", "absent", "msg")
              /\ calls[c].ret.err.msg = "bad input"
           \/ /\ calls[c].resp.body = Doc("object", "false", "object", "null")
              /\ calls[c].ret.err.msg = "unknown error"

(***************************************************************************)
(* C5.  After a 200 whose body is an envelope with the success flag true,  *)
(* the result is the value of data when data is there and not null, and    *)
(* the whole body when data is missing or null.                            *)
(***************************************************************************)
C5_DataOrWholeBody ==
    \A c \in DOMAIN calls :
        LET body == calls[c].resp.body
        IN  (Answered(c) /\ calls[c].resp.status = 200 /\ body.kind = "object"
                         /\ body.isSuccess = "true" /\ body.error # "number") =>
                /\ calls[c].ret.err.fmt = "nil"
                /\ calls[c].ret.bytes =
                       (IF body.data \in {"absent", "null"} THEN body ELSE RawValue(body.data))

(***************************************************************************)
(* C6.  Construction and invocation targets.                               *)
(***************************************************************************)
\* The endpoint of the tool's mode, read off the descriptor.
TargetOf(t) == IF t.AllowUploadFiles THEN t.InvokeEndpoints.Form ELSE t.InvokeEndpoints.Json

NoInvocationTarget(t) == t.Name = "" \/ TargetOf(t) = ""

\* The manifest endpoint answered 200 with a decodable, successful envelope.
ManifestArrived ==
    /\ manifestResp.io = "ok"
    /\ manifestResp.status = 200
    /\ manifestResp.body.decodes
    /\ manifestResp.body.isSuccess

ManifestTools == manifestResp.body.tools

\* C6 as claimed: a fetched manifest holding a tool with no invocation target
\* makes construction fail, and no call is ever served.
C6_UntargetedToolFailsStartup ==
    (ManifestArrived /\ \E i \in 1..Len(ManifestTools) : NoInvocationTarget(ManifestTools[i])) =>
        /\ phase # "serving"
        /\ \A c \in DOMAIN calls : calls[c].st = "idle"

\* C6 as the code has it: construction succeeds exactly when the manifest
\* arrives and every input schema decodes, whatever the names and endpoints
\* are; a tool without an endpoint for its mode is registered and each call
\* to it ends with the error naming the tool before any request goes out.
C6_TargetsCheckedAtCallTime ==
    /\ phase # "boot" =>
           (phase = "serving" <=>
                /\ ManifestArrived
                /\ \A i \in 1..Len(ManifestTools) :
                       ManifestTools[i].InputSchema.kind \in {"object", "null"})
    /\ phase = "serving" =>
           /\ tools = ManifestTools
           /\ Len(registered) = Len(ManifestTools)
    /\ \A c \in DOMAIN calls :
           (calls[c].st # "idle" /\ TargetOf(calls[c].tool) = "") =>
               /\ EndedUnsent(c)
               /\ calls[c].ret.err.fmt = FmtNoEndpoint
               /\ calls[c].ret.err.tool = calls[c].tool.Name

\* A server is serving a manifest with an endpoint-less tool, and a call to
\* that tool has just failed with the error naming it.
C6_Witness ==
    /\ phase = "serving"
    /\ \E c \in DOMAIN calls :
           /\ \E i \in 1..Len(ManifestTools) : ManifestTools[i] = calls[c].tool
           /\ TargetOf(calls[c].tool) = ""
           /\ EndedUnsent(c)
           /\ calls[c].ret.err.fmt = FmtNoEndpoint

(***************************************************************************)
(* C7.  On an upload-capable tool, a listed path that cannot be opened     *)
(* makes the invocation fail with an error naming that path, and no        *)
(* request goes out, wherever the path stands in the list.  (Read for a    *)
(* tool that has a usable form endpoint.)                                  *)
(***************************************************************************)
UsableForm(t) == t.AllowUploadFiles /\ t.InvokeEndpoints.Form \notin {"", UrlBad}

ListsPaths(a) == a.kind = "object" /\ a.field = "list"

C7_UnopenablePathNamed ==
    \A c \in DOMAIN calls :
        (/\ calls[c].st # "idle"
         /\ UsableForm(calls[c].tool)
         /\ ListsPaths(calls[c].args)
         /\ \E i \in 1..Len(calls[c].args.paths) : ~CanOpen(calls[c].args.paths[i])) =>
            /\ EndedUnsent(c)
            /\ calls[c].ret.err.fmt \in {FmtOpen, FmtMime}
            /\ ~CanOpen(calls[c].ret.err.path)

(***************************************************************************)
(* C8.  On an upload-capable tool with a non-empty form endpoint, a list   *)
(* of k paths that can all be opened gives exactly one POST whose body is  *)
(* the json field holding the arguments followed by k parts named file,    *)
(* in list order, the i-th with the base name of the i-th path as filename *)
(* (quoted as form-data requires) and the bytes of that file as content.   *)
(***************************************************************************)
C8_OnePartPerFile ==
    \A c \in DOMAIN calls :
        (/\ calls[c].st # "idle"
         /\ UsableForm(calls[c].tool)
         /\ ListsPaths(calls[c].args)
         /\ \A i \in 1..Len(calls[c].args.paths) : CanOpen(calls[c].args.paths[i])) =>
            /\ Len(calls[c].req) = 1
            /\ LET req   == calls[c].req[1]
                   paths == calls[c].args.paths
               IN  /\ req.method = "POST"
                   /\ req.fields = <<[name |-> "json", value |-> calls[c].args]>>
                   /\ Len(req.files) = Len(paths)
                   /\ \A i \in 1..Len(paths) :
                          /\ req.files[i].name = "file"
                          /\ req.files[i].filename = QuoteEscape(Base(paths[i]))
                          /\ req.files[i].content = FileSystem(paths[i]).bytes

(***************************************************************************)
(* C9.  On an upload-capable tool, arguments (a JSON object, or none at    *)
(* all) that do not hold _uploaded_file_paths, or hold it with a value     *)
(* that is not a list, go out as one multipart request to the form         *)
(* endpoint with the json field and no file part; the call does not end    *)
(* before sending.  (Read for a tool that has a usable form endpoint; C10  *)
(* covers the empty one.)                                                  *)
(***************************************************************************)
C9_NoListNoFileParts ==
    \A c \in DOMAIN calls :
        (/\ calls[c].st # "idle"
         /\ UsableForm(calls[c].tool)
         /\ calls[c].args.kind \in {"object", "null"}
         /\ calls[c].args.field # "list") =>
            /\ ~EndedUnsent(c)
            /\ Len(calls[c].req) = 1
            /\ calls[c].req[1].url = calls[c].tool.InvokeEndpoints.Form
            /\ calls[c].req[1].contentType = "multipart/form-data"
            /\ calls[c].req[1].fields = <<[name |-> "json", value |-> calls[c].args]>>
            /\ calls[c].req[1].files = <<>>

\* A call whose _uploaded_file_paths is a string is in flight with no file part.
C9_Witness ==
    \E c \in DOMAIN calls :
        /\ calls[c].st = "inflight"
        /\ calls[c].tool.AllowUploadFiles
        /\ calls[c].args = ArgsDoc("object", "string", <<>>)
        /\ calls[c].req[1].files = <<>>
        /\ calls[c].req[1].url = UrlForm

(***************************************************************************)
(* C10.  A request goes to the form endpoint exactly when the tool is      *)
(* upload-capable and to the JSON endpoint otherwise, never to the other   *)
(* one; when the endpoint so selected is empty the call fails with the     *)
(* error naming the tool and no request goes out.                          *)
(***************************************************************************)
C10_EndpointByUploadFlag ==
    \A c \in DOMAIN calls :
        calls[c].st # "idle" =>
            LET t == calls[c].tool
            IN  /\ \A i \in 1..Len(calls[c].req) :
                       /\ t.AllowUploadFiles => calls[c].req[i].url = t.InvokeEndpoints.Form
                       /\ ~t.AllowUploadFiles => calls[c].req[i].url = t.InvokeEndpoints.Json
                /\ TargetOf(t) = "" =>
                       /\ EndedUnsent(c)
                       /\ calls[c].ret = Fail([fmt |-> FmtNoEndpoint, tool |-> t.Name])

\* An upload-capable tool with an empty form endpoint and a JSON endpoint was
\* called: the call failed naming the tool, the JSON endpoint was not used.
C10_Witness ==
    \E c \in DOMAIN calls :
        /\ calls[c].tool.AllowUploadFiles
        /\ calls[c].tool.InvokeEndpoints.Form = ""
        /\ calls[c].tool.InvokeEndpoints.Json # ""
        /\ EndedUnsent(c)
        /\ calls[c].ret.err = [fmt |-> FmtNoEndpoint, tool |-> calls[c].tool.Name]

(***************************************************************************)
(* C11.  For a valid manifest of N tools (every input schema a JSON object *)
(* whose properties, when given, are an object; names distinct) the server *)
(* exposes exactly N callable tools, in manifest order, and every exposed  *)
(* schema follows the augmentation rule: "type" is "object" when none was  *)
(* declared and the declared one otherwise; an upload-capable tool has a   *)
(* properties object holding the fixed _uploaded_file_paths entry; another *)
(* tool keeps its properties as declared and gains no such entry.          *)
(***************************************************************************)
ValidManifest(ts) ==
    /\ \A i \in 1..Len(ts) :
           /\ ts[i].InputSchema.kind = "object"
           /\ ts[i].InputSchema.properties \in {"absent", "object"}
    /\ \A i, j \in 1..Len(ts) : ts[i].Name = ts[j].Name => i = j

ExposedNames == { registered[i].name : i \in 1..Len(registered) }

C11_ExposedToolsAndSchemas ==
    (phase # "boot" /\ ManifestArrived /\ ValidManifest(ManifestTools)) =>
        /\ phase = "serving"
        /\ Len(registered) = Len(ManifestTools)
        /\ Cardinality(ExposedNames) = Len(ManifestTools)
        /\ \A i \in 1..Len(ManifestTools) :
               LET declared == ManifestTools[i].InputSchema
                   exposed  == registered[i].RawInputSchema
               IN  /\ registered[i].name = ManifestTools[i].Name
                   /\ exposed.kind = "object"
                   /\ exposed.type = (IF declared.type = "absent" THEN "object" ELSE declared.type)
                   /\ ManifestTools[i].AllowUploadFiles =>
                          /\ exposed.properties = "object"
                          /\ exposed.uploadField = [type |-> "array", items |-> "string"]
                   /\ ~ManifestTools[i].AllowUploadFiles =>
                          /\ exposed.properties = declared.properties
                          /\ exposed.uploadField = declared.uploadField

\* A valid manifest of two tools is served: one that is not upload-capable
\* and declared no type, one that is upload-capable and declared no properties.
C11_Witness ==
    /\ phase = "serving"
    /\ ValidManifest(ManifestTools)
    /\ Len(registered) = 2
    /\ \E i, j \in 1..2 :
           /\ ~ManifestTools[i].AllowUploadFiles
           /\ ManifestTools[i].InputSchema.type = "absent"
           /\ registered[i].RawInputSchema.type = "object"
           /\ registered[i].RawInputSchema.uploadField = NoField
           /\ ManifestTools[j].AllowUploadFiles
           /\ ManifestTools[j].InputSchema.properties = "absent"
           /\ registered[j].RawInputSchema.uploadField = UploadedFilePathsSchema

(***************************************************************************)
(* C12.  Every call of a tool handler returns to the protocol layer with   *)
(* a nil Go error and leaves the process serving.  The result it returns   *)
(* is a tool-error result exactly when ExecuteToolRequest returned an      *)
(* error or returned bytes that are not valid JSON; otherwise it is a text *)
(* result holding the returned JSON value serialized again with a          *)
(* two-space indent.                                                       *)
(***************************************************************************)
Returns(c) == calls[c].st = "done"

ExecuteFailed(c) == calls[c].ret.err.fmt # "nil"

C12_HandlerAlwaysReturnsResult ==
    \A c \in DOMAIN calls :
        Returns(c) =>
            LET ret == calls[c].ret
                out == calls[c].result
            IN  /\ phase = "serving"
                /\ out.err.fmt = "nil"
                /\ out.result.IsError <=> (ExecuteFailed(c) \/ ~ValidJSON(ret.bytes))
                /\ ExecuteFailed(c) =>
                       /\ out.result.fmt = "Tool execution failed: %v"
                       /\ out.result.cause.fmt = ret.err.fmt
                /\ ~out.result.IsError =>
                       /\ out.result.text.layout = "indented"
                       /\ out.result.text.indent = "  "
                       /\ out.result.text.prefix = ""
                       /\ out.result.text.value = ret.bytes

\* A call was answered 200 with a text that is not JSON and the handler
\* returned a tool-error result.
C12_Witness ==
    \E c \in DOMAIN calls :
        /\ Answered(c)
        /\ calls[c].resp.status = StatusOK
        /\ calls[c].resp.body.kind = "text"
        /\ ~ExecuteFailed(c)
        /\ calls[c].result.result.IsError
        /\ calls[c].result.err.fmt = "nil"
(***************************************************************************)
(* C13.  FetchToolsetManifest, once the manifest endpoint has answered,    *)
(* returns a manifest if and only if the status is 200, the body decodes   *)
(* as the envelope and the success flag is true.  Otherwise its error is   *)
(* decided in this order: a status other than 200 gives the status error   *)
(* with the status and the raw body, whatever the body holds; then a body  *)
(* that does not decode gives the unmarshal error; then a false success    *)
(* flag gives the API error with the remote message, or "unknown error"    *)
(* when there is none.  A returned manifest lists the tools of the         *)
(* response, in its order and number.                                      *)
(***************************************************************************)
FmtFetch == "failed to fetch toolset manifest: %w"

ManifestReturned == phase # "boot" /\ startErr.fmt # FmtFetch

C13_ManifestFetchOutcome ==
    (phase # "boot" /\ manifestResp.io = "ok") =>
        LET r == manifestResp
        IN  /\ ManifestReturned <=> (r.status = StatusOK /\ r.body.decodes /\ r.body.isSuccess)
            /\ r.status # StatusOK =>
                   /\ startErr.cause.fmt = FmtStatus
                   /\ startErr.cause.status = r.status
                   /\ startErr.cause.body = r.body
            /\ (r.status = StatusOK /\ ~r.body.decodes) =>
                   startErr.cause.fmt = "failed to unmarshal response: %w"
            /\ (r.status = StatusOK /\ r.body.decodes /\ ~r.body.isSuccess) =>
                   /\ startErr.cause.fmt = FmtAPI
                   /\ startErr.cause.msg =
                          (IF r.body.error # "nil" THEN r.body.error ELSE "unknown error")
            /\ ManifestReturned =>
                   /\ tools = r.body.tools
                   /\ Len(tools) = Len(r.body.tools)

\* The endpoint answered 500 with a body that does not decode, or with an
\* envelope that reports a failure of its own, and the status error won.
C13_Witness ==
    /\ phase = "exited"
    /\ manifestResp.io = "ok"
    /\ manifestResp.status # StatusOK
    /\ manifestResp.body.decodes
    /\ ~manifestResp.body.isSuccess
    /\ manifestResp.body.error = RemoteMsg
    /\ startErr.cause.fmt = FmtStatus
(***************************************************************************)
(* C14.  A tool call is served only when the manifest fetch, the storing   *)
(* of the tool list and the registration of every handler have all         *)
(* succeeded: the server is then serving, holds the fetched list and has   *)
(* one registration per tool of it.  When the fetch fails, or the input    *)
(* schema of any tool fails to parse during registration, NewServer        *)
(* returns an error, the process exits and no call is ever served, not     *)
(* even on the tools registered before the failing one.                    *)
(***************************************************************************)
FmtRegister == "failed to register tool handlers: %w"

CallUnderWay(c) == calls[c].st # "idle"

EverySchemaParses(ts) == \A i \in 1..Len(ts) : SchemaDecodes(ts[i].InputSchema)

C14_ServeOnlyAfterFullStartup ==
    /\ \A c \in DOMAIN calls :
           CallUnderWay(c) =>
               /\ phase = "serving"
               /\ startErr.fmt = "nil"
               /\ ManifestArrived
               /\ tools = ManifestTools
               /\ EverySchemaParses(tools)
               /\ Len(registered) = Len(tools)
               /\ \A i \in 1..Len(tools) : registered[i].localTool = tools[i]
    /\ (phase # "boot" /\ ~ManifestArrived) =>
           /\ phase = "exited"
           /\ startErr.fmt = FmtFetch
           /\ tools = <<>> /\ registered = <<>>
    /\ (phase # "boot" /\ ManifestArrived /\ ~EverySchemaParses(ManifestTools)) =>
           /\ phase = "exited"
           /\ startErr.fmt = FmtRegister
           /\ tools = ManifestTools
    /\ phase = "exited" => \A c \in DOMAIN calls : ~CallUnderWay(c)

\* The second tool's schema failed to parse after the first tool had been
\* registered; the process has exited with nothing served.
C14_Witness ==
    /\ phase = "exited"
    /\ startErr.fmt = FmtRegister
    /\ Len(tools) = 2
    /\ Len(registered) = 1
    /\ ~SchemaDecodes(tools[2].InputSchema)
    /\ \A c \in DOMAIN calls : ~CallUnderWay(c)
(***************************************************************************)
(* C15.  In every state after NewServer has returned, the server's tool    *)
(* list and the descriptor captured by every handler are what construction *)
(* left: no call, sent or not, answered well or badly, as JSON or as       *)
(* multipart, adds, removes or changes a descriptor, and every call under  *)
(* way works on the descriptor its handler captured at registration.       *)
(***************************************************************************)
AtConstruction == NewServer(manifestResp)

ConcClients == {"c1", "c2"}

Resize == Tool("resize", TRUE, "https://remote/resize/json", "https://remote/resize/form",
               Schema("object", "object", "object", NoField))

Tag == Tool("tag", FALSE, "https://remote/tag/json", "https://remote/tag/form",
            Schema("object", "absent", "absent", NoField))

Crop == Tool("crop", TRUE, "https://remote/crop/json", "",
             Schema("object", "object", "absent", NoField))

ResizeAgain == Tool("resize", FALSE, "https://remote/resize2/json", "",
                    Schema("object", "absent", "absent", NoField))

ConcManifests == { <<Resize, Tag>>, <<Tag, Resize>>, <<Tag, Crop>>, <<Resize, ResizeAgain>> }

ConcFetchResponses ==
    { [io |-> "ok", status |-> StatusOK, body |-> ManifestBody(TRUE, TRUE, "nil", ts)] :
        ts \in ConcManifests }
    \cup { [io |-> "ok", status |-> 500, body |-> ManifestBody(FALSE, FALSE, "nil", <<>>)] }

ConcToolNames == { "resize", "tag", "crop" }

ConcArguments ==
    { ArgsDoc("object", "absent", <<>>),
      ArgsDoc("array", "absent", <<>>),
      ArgsDoc("object", "list", <<PathGood>>),
      ArgsDoc("object", "list", <<PathMissing>>) }

ConcResponses ==
    { [io |-> "doErr", status |-> 0, body |-> NilBytes],
      [io |-> "ok", status |-> 500, body |-> PlainDoc("text")],
      [io |-> "ok", status |-> StatusOK, body |-> PlainDoc("array")],
      [io |-> "ok", status |-> StatusOK, body |-> Doc("object", "true", "object", "absent")],
      [io |-> "ok", status |-> StatusOK, body |-> Doc("object", "false", "absent", "msg")] }

InitConc ==
    /\ phase = "boot"
    /\ manifestResp = [io |-> "none", status |-> 0, body |-> ManifestBody(FALSE, FALSE, "nil", <<>>)]
    /\ startErr = NoErr
    /\ tools = <<>>
    /\ registered = <<>>
    /\ calls = [c \in ConcClients |-> IdleCall]

NextConc ==
    \/ \E r \in ConcFetchResponses : Main(r)
    \/ \E c \in DOMAIN calls, n \in ConcToolNames, a \in ConcArguments : HandlerStart(c, n, a)
    \/ \E c \in DOMAIN calls, r \in ConcResponses : HandlerFinish(c, r)
    \/ \E c \in DOMAIN calls : Deliver(c)

SpecConc == InitConc /\ [][NextConc]_vars

(***************************************************************************)
(* C16.  For a manifest with distinct tool names and any interleaving of   *)
(* concurrent calls, the handler registered under name n works on the      *)
(* descriptor named n: its request goes to that descriptor's endpoint for  *)
(* that descriptor's upload flag and carries the arguments of its own      *)
(* call, and what it returns is computed from the response to its own      *)
(* request.  Nothing of another tool's descriptor or of another call's     *)
(* arguments or response enters it.                                        *)
(***************************************************************************)
DistinctNames(ts) == \A i, j \in 1..Len(ts) : ts[i].Name = ts[j].Name => i = j

DescriptorNamed(ts, n) == ts[CHOOSE i \in 1..Len(ts) : ts[i].Name = n]

C16_HandlerBoundToOwnTool ==
    (phase = "serving" /\ DistinctNames(ManifestTools)) =>
        \A c \in DOMAIN calls :
            CallUnderWay(c) =>
                LET d     == DescriptorNamed(ManifestTools, calls[c].name)
                    built == BuildRequest(d, calls[c].args)
                IN  /\ \E i \in 1..Len(ManifestTools) : ManifestTools[i].Name = calls[c].name
                    /\ calls[c].tool = d
                    /\ built.err.fmt # "nil" =>
                           /\ calls[c].req = <<>>
                           /\ calls[c].ret.err.fmt = built.err.fmt
                    /\ built.err.fmt = "nil" =>
                           /\ Len(calls[c].req) = 1
                           /\ calls[c].req[1].url = TargetOf(d)
                           /\ (calls[c].req[1].contentType = "multipart/form-data") <=> d.AllowUploadFiles
                           /\ d.AllowUploadFiles =>
                                  /\ calls[c].req[1].fields[1].value = calls[c].args
                                  /\ calls[c].req[1].files = MultipartBody(calls[c].args).files
                           /\ ~d.AllowUploadFiles => calls[c].req[1].raw = calls[c].args
                           /\ Returns(c) =>
                                  /\ calls[c].ret = HandleResponse(calls[c].resp)
                                  /\ calls[c].result = ToolResult(calls[c].ret)

\* Two calls are in flight at once on two tools, each with arguments of its
\* own and each on the way to its own tool's endpoint.
C16_Witness ==
    /\ phase = "serving"
    /\ DistinctNames(ManifestTools)
    /\ \E c1, c2 \in DOMAIN calls :
           /\ c1 # c2
           /\ calls[c1].st = "inflight" /\ calls[c2].st = "inflight"
           /\ calls[c1].name # calls[c2].name
           /\ calls[c1].args # calls[c2].args
           /\ calls[c1].req[1].url = TargetOf(DescriptorNamed(ManifestTools, calls[c1].name))
           /\ calls[c2].req[1].url = TargetOf(DescriptorNamed(ManifestTools, calls[c2].name))
           /\ calls[c1].req[1].url # calls[c2].req[1].url
====
